---- MODULE Spec2Model ----
(***************************************************************************)
(* load_nasr_data.py: loading NASR CSV files into a database.              *)
(*                                                                         *)
(* Text (cell values, column names) is a sequence of one-character         *)
(* strings, so that str.strip and str.lower are computed character by      *)
(* character.  Table names and file names are never converted by the       *)
(* program and stay plain strings.                                         *)
(*                                                                         *)
(* The database (the sink), the file system and the log are the            *)
(* environment: the database is a function from table names to the         *)
(* sequence of rows appended so far, and each bulk insert either succeeds  *)
(* or raises, as the sink decides.                                         *)
(***************************************************************************)
EXTENDS Integers, Sequences, FiniteSets, TLC

VARIABLES
    pc,         \* position of the caller: main's next statement, or "api"
    configFile, \* content of config.yaml
    csvFiles,   \* data directory: file name -> CSV content, or NoFile
    config,     \* the Configuration main holds (NoConfig before load_config)
    engine,     \* TRUE once create_engine has returned
    db,         \* sink: table name -> sequence of rows appended
    log,        \* lines received by the root logger
    trace,      \* history: the calls made so far, with their outcome
    idx,        \* main: index of the next dictionary table / data file
    exc,        \* exception that left the running entry point ("none" if none)
    sinkFailures, \* number of inserts the sink has refused so far
    args        \* the dict_tables argument of the caller's load_dict_tables call

vars == <<pc, configFile, csvFiles, config, engine, db, log, trace, idx, exc,
          sinkFailures, args>>

-----------------------------------------------------------------------------
(* Bounds of the model *)

MaxRows == 2          \* data rows of a CSV file, row-mappings of a dictionary table
MaxDictTables == 2    \* dictionary tables of a configuration
MaxCalls == 2         \* calls made through the loader API in one behaviour
MaxSinkFailures == 1  \* inserts the sink refuses in one run of main

-----------------------------------------------------------------------------
(* Text *)

RECURSIVE SeqToSet(_)
SeqToSet(s) == IF s = <<>> THEN {} ELSE {Head(s)} \cup SeqToSet(Tail(s))

\* characters str.strip() removes when called without argument
Whitespace == {" ", "\t", "\n", "\r"}

UpperLetters == <<"A","B","C","D","E","F","G","H","I","J","K","L","M",
                  "N","O","P","Q","R","S","T","U","V","W","X","Y","Z">>
LowerLetters == <<"a","b","c","d","e","f","g","h","i","j","k","l","m",
                  "n","o","p","q","r","s","t","u","v","w","x","y","z">>

LowerChar(c) ==
    IF \E k \in DOMAIN UpperLetters : UpperLetters[k] = c
    THEN LowerLetters[CHOOSE k \in DOMAIN UpperLetters : UpperLetters[k] = c]
    ELSE c

\* str.lower()
Lower(s) == [k \in 1..Len(s) |-> LowerChar(s[k])]

RECURSIVE LStrip(_)
LStrip(s) ==
    IF s # <<>> /\ Head(s) \in Whitespace THEN LStrip(Tail(s)) ELSE s

RECURSIVE RStrip(_)
RStrip(s) ==
    IF s # <<>> /\ s[Len(s)] \in Whitespace
    THEN RStrip(SubSeq(s, 1, Len(s) - 1))
    ELSE s

\* a plausible slip: only leading whitespace is removed
StripLeadingOnly(s) == LStrip(s)

\* str.strip()
Strip(s) == RStrip(LStrip(s))

\* pandas' missing value: what pd.DataFrame puts where a row-mapping has no key
NaN == <<"NaN">>

Digits == <<"0","1","2","3","4","5","6","7","8","9">>
IsDigit(c) == \E k \in DOMAIN Digits : Digits[k] = c
DigitValue(c) == (CHOOSE k \in DOMAIN Digits : Digits[k] = c) - 1

RECURSIVE DecimalValue(_)
DecimalValue(s) ==
    IF s = <<>> THEN 0
    ELSE 10 * DecimalValue(SubSeq(s, 1, Len(s) - 1)) + DigitValue(s[Len(s)])

IsUnsigned(s) == s # <<>> /\ \A k \in DOMAIN s : IsDigit(s[k])

\* conversion of a text cell to float64 (numpy, inside points_from_xy), on
\* whole decimal degrees: an optional sign and digits; anything else raises
IsNumeric(s) ==
    \/ IsUnsigned(s)
    \/ s # <<>> /\ Head(s) \in {"-", "+"} /\ IsUnsigned(Tail(s))

ToFloat(s) ==
    IF Head(s) = "-" THEN 0 - DecimalValue(Tail(s))
    ELSE IF Head(s) = "+" THEN DecimalValue(Tail(s))
    ELSE DecimalValue(s)

-----------------------------------------------------------------------------
(* Python values *)

\* list[dict]: the `data` of a dictionary table; each item maps column
\* names to values
PyList(items) == [kind |-> "list", items |-> items]

\* pandas.DataFrame: column labels in order, and the rows; rows[r][c] is
\* the value of column c in row r
DataFrame(columns, rows) == [kind |-> "DataFrame", columns |-> columns, rows |-> rows]

\* len(): the number of items of a list, the number of rows of a frame
PyLen(data) == IF data.kind = "list" THEN Len(data.items) ELSE Len(data.rows)

\* positions of the columns labelled `name`
ColumnIndexes(df, name) == {c \in DOMAIN df.columns : df.columns[c] = name}

\* the values of the column labelled `name`, row by row
Column(df, name) ==
    LET c == CHOOSE k \in ColumnIndexes(df, name) : TRUE
    IN  [r \in DOMAIN df.rows |-> df.rows[r][c]]

RECURSIVE Keep(_, _)
\* the subsequence of the positions of s that are in `keep`
Keep(s, keep) ==
    IF s = <<>> THEN <<>>
    ELSE LET n == Len(s)
             front == Keep(SubSeq(s, 1, n - 1), keep)
         IN  IF n \in keep THEN Append(front, s[n]) ELSE front

\* a row of a table of the sink: its column names, its values, and its
\* geometry (<<>> for a row without geometry)
SinkRow(names, vals, geom) == [names |-> names, vals |-> vals, geom |-> geom]

-----------------------------------------------------------------------------
(* The sink: pandas' to_sql and geopandas' to_postgis with if_exists="append" *)

RowsOf(df, geometry) ==
    [r \in DOMAIN df.rows |->
        SinkRow(df.columns, df.rows[r], IF geometry = <<>> THEN <<>> ELSE <<geometry[r]>>)]

\* a plausible slip: if_exists="replace", the rows already there are dropped
ReplaceRows(sink, name, rows) == [sink EXCEPT ![name] = rows]

\* if_exists="append": the rows are added after the rows already there
AppendRows(sink, name, rows) == [sink EXCEPT ![name] = @ \o rows]

\* DataFrame.to_sql(name, con, if_exists="append", index=False): the insert
\* runs in one transaction, which the sink commits or refuses
to_sql(df, name, sink, sinkOk) ==
    IF sinkOk
    THEN [exc |-> "none", db |-> AppendRows(sink, name, RowsOf(df, <<>>)), sink |-> "ok"]
    ELSE [exc |-> "SQLAlchemyError", db |-> sink, sink |-> "refused"]

\* GeoDataFrame.to_postgis(name, con, if_exists="append", index=False,
\* chunksize=10000): the rows go out in batches inside one transaction,
\* which the sink commits or refuses
to_postgis(gdf, name, sink, sinkOk) ==
    IF sinkOk
    THEN [exc |-> "none",
          db |-> AppendRows(sink, name, RowsOf(gdf.frame, gdf.geometry)),
          sink |-> "ok"]
    ELSE [exc |-> "SQLAlchemyError", db |-> sink, sink |-> "refused"]

-----------------------------------------------------------------------------
(* Dictionary tables *)

\* the keys of a row-mapping, in insertion order; a mapping is a sequence
\* of <<key, value>> pairs with distinct keys
Keys(item) == [k \in DOMAIN item |-> item[k][1]]

HasKey(item, key) == \E k \in DOMAIN item : item[k][1] = key

Get(item, key) == item[CHOOSE k \in DOMAIN item : item[k][1] = key][2]

RECURSIVE AppendNew(_, _)
\* s followed by the elements of t that s does not hold yet
AppendNew(s, t) ==
    IF t = <<>> THEN s
    ELSE AppendNew(IF Head(t) \in SeqToSet(s) THEN s ELSE Append(s, Head(t)), Tail(t))

RECURSIVE UnionOfKeys(_)
\* the keys of all mappings, in order of first appearance
UnionOfKeys(items) ==
    IF items = <<>> THEN <<>>
    ELSE AppendNew(UnionOfKeys(SubSeq(items, 1, Len(items) - 1)),
                   Keys(items[Len(items)]))

\* a plausible slip: the rows come out in reverse order
DataFrameReversed(items) ==
    LET columns == UnionOfKeys(items)
        n == Len(items)
    IN  DataFrame(columns,
                  [r \in DOMAIN items |->
                      [c \in DOMAIN columns |->
                          IF HasKey(items[n + 1 - r], columns[c])
                          THEN Get(items[n + 1 - r], columns[c]) ELSE NaN]])

\* pd.DataFrame(data) for a list of row-mappings: one row per mapping, in
\* order; the columns are the union of the keys; a missing key gives NaN
DataFrameFromRecords(items) ==
    LET columns == UnionOfKeys(items)
    IN  DataFrame(columns,
                  [r \in DOMAIN items |->
                      [c \in DOMAIN columns |->
                          IF HasKey(items[r], columns[c])
                          THEN Get(items[r], columns[c]) ELSE NaN]])

\* the body of load_dict_table (without its decorator)
load_dict_table(kwargs, sink, sinkOk) ==
    to_sql(DataFrameFromRecords(kwargs.data.items), kwargs.table_name, sink, sinkOk)

-----------------------------------------------------------------------------
(* Data tables *)

NoFile == [header |-> <<>>, rows |-> <<>>, exists |-> FALSE]
CSVFile(header, rows) == [header |-> header, rows |-> rows, exists |-> TRUE]

long_decimal == <<"l","o","n","g","_","d","e","c","i","m","a","l">>
lat_decimal == <<"l","a","t","_","d","e","c","i","m","a","l">>

\* DataTableLoader._prepare_data: read the file (dtype=str: every column
\* has dtype object, so every cell is stripped; every value as text, only
\* the configured columns, in the order of the file), strip every cell,
\* lower-case the column labels.  A missing file, or a configured column
\* the header does not hold, makes read_csv raise.
_prepare_data(files, data_file_setting) ==
    LET file == files[data_file_setting.file_name]
        usecols == SeqToSet(data_file_setting.columns)
        keep == {c \in DOMAIN file.header : file.header[c] \in usecols}
        read == DataFrame(Keep(file.header, keep),
                          [r \in DOMAIN file.rows |-> Keep(file.rows[r], keep)])
        stripped == DataFrame(read.columns,
                              [r \in DOMAIN read.rows |->
                                  [c \in DOMAIN read.rows[r] |-> Strip(read.rows[r][c])]])
        renamed == DataFrame([c \in DOMAIN stripped.columns |-> Lower(stripped.columns[c])],
                             stripped.rows)
    IN  IF ~file.exists
        THEN [exc |-> "FileNotFoundError", data |-> DataFrame(<<>>, <<>>)]
        ELSE IF ~(usecols \subseteq SeqToSet(file.header))
        THEN [exc |-> "ValueError", data |-> DataFrame(<<>>, <<>>)]
        ELSE [exc |-> "none", data |-> renamed]

\* the body of DataTableLoader._load_non_spatial (without its decorator)
_load_non_spatial(kwargs, sink, sinkOk) ==
    to_sql(kwargs.data, kwargs.data_file_setting.table_name, sink, sinkOk)

Point(x, y) == [x |-> x, y |-> y, crs |-> "EPSG:4326"]

\* a plausible slip: latitude passed as x and longitude as y
PointsFromYX(x, y) == [r \in DOMAIN x |-> Point(ToFloat(y[r]), ToFloat(x[r]))]

\* gpd.points_from_xy(x, y): one point per row
points_from_xy(x, y) == [r \in DOMAIN x |-> Point(ToFloat(x[r]), ToFloat(y[r]))]

\* DataFrame.drop(columns=names)
Drop(df, names) ==
    LET keep == {c \in DOMAIN df.columns : df.columns[c] \notin names}
    IN  DataFrame(Keep(df.columns, keep),
                  [r \in DOMAIN df.rows |-> Keep(df.rows[r], keep)])

\* the body of DataTableLoader._load_spatial (without its decorator):
\* data.long_decimal / data.lat_decimal raise AttributeError when the frame
\* has no such column, the conversion to float raises ValueError on a cell
\* that is no number
_load_spatial(kwargs, sink, sinkOk) ==
    LET data == kwargs.data
        x == Column(data, long_decimal)
        y == Column(data, lat_decimal)
    IN  IF ColumnIndexes(data, long_decimal) = {} \/ ColumnIndexes(data, lat_decimal) = {}
        THEN [exc |-> "AttributeError", db |-> sink, sink |-> "unused"]
        ELSE IF Cardinality(ColumnIndexes(data, long_decimal)) > 1
                \/ Cardinality(ColumnIndexes(data, lat_decimal)) > 1
        THEN [exc |-> "ValueError", db |-> sink, sink |-> "unused"]
        ELSE IF \E r \in DOMAIN data.rows : ~IsNumeric(x[r]) \/ ~IsNumeric(y[r])
        THEN [exc |-> "ValueError", db |-> sink, sink |-> "unused"]
        ELSE to_postgis([frame |-> Drop(data, {long_decimal, lat_decimal}),
                         geometry |-> points_from_xy(x, y)],
                        kwargs.data_file_setting.table_name, sink, sinkOk)

-----------------------------------------------------------------------------
(* load_log_decorator *)

InsertingLine(table_name) == [kind |-> "inserting", table |-> table_name]
RowsInsertedLine(table_name, n) == [kind |-> "rows_inserted", table |-> table_name, rows |-> n]
ExceptionLine(e) == [kind |-> "exception", error |-> e]

\* the wrapped function, called with the wrapper's keyword arguments
CallWrapped(func, kwargs, sink, sinkOk) ==
    CASE func = "load_dict_table" -> load_dict_table(kwargs, sink, sinkOk)
      [] func = "_load_non_spatial" -> _load_non_spatial(kwargs, sink, sinkOk)
      [] func = "_load_spatial" -> _load_spatial(kwargs, sink, sinkOk)

\* Python truth value of a str (or of None)
Truthy(s) == s # ""

\* wrapper(*args, **kwargs): the table name is kwargs.get("table_name") or,
\* when that is None or empty, kwargs["data_file_setting"].table_name, which
\* raises KeyError when there is no such keyword argument; the wrapped call
\* is the only statement inside the try
load_log_decorator(func, kwargs, sink, lines, sinkOk) ==
    LET table_name == IF "table_name" \in DOMAIN kwargs /\ Truthy(kwargs.table_name)
                      THEN kwargs.table_name
                      ELSE kwargs.data_file_setting.table_name
        started == Append(lines, InsertingLine(table_name))
        result == CallWrapped(func, kwargs, sink, sinkOk)
    IN  IF ~("table_name" \in DOMAIN kwargs /\ Truthy(kwargs.table_name))
           /\ "data_file_setting" \notin DOMAIN kwargs
        THEN [exc |-> "KeyError", db |-> sink, log |-> lines, sink |-> "unused",
              caught |-> "none", steps |-> <<>>]
        ELSE IF result.exc # "none"
        THEN [exc |-> "none", db |-> result.db,
              log |-> Append(started, ExceptionLine(result.exc)),
              sink |-> result.sink, caught |-> result.exc,
              steps |-> <<"log_inserting", "call", "log_exception">>]
        ELSE [exc |-> "none", db |-> result.db,
              log |-> Append(started, RowsInsertedLine(table_name, PyLen(kwargs.data))),
              sink |-> result.sink, caught |-> "none",
              steps |-> <<"log_inserting", "call", "log_rows_inserted">>]

-----------------------------------------------------------------------------
(* load_dict_tables *)

RECURSIVE DictLoop(_, _, _, _)
\* the for loop of load_dict_tables from table k on; an exception that
\* leaves a call ends the loop.  oks[k] is the sink's answer to the k-th
\* table's insert.
DictLoop(dict_tables, k, st, oks) ==
    IF k > Len(dict_tables) \/ st.exc # "none" THEN st
    ELSE LET table == dict_tables[k]
             r == load_log_decorator("load_dict_table",
                                     [table_name |-> table.name, data |-> table.data,
                                      engine |-> "engine"],
                                     st.db, st.log, oks[k])
             event == [op |-> "load_dict_table", table |-> table.name,
                       data |-> table.data, position |-> k,
                       before |-> st.db[table.name], after |-> r.db[table.name],
                       logFrom |-> Len(st.log), logTo |-> Len(r.log),
                       sink |-> r.sink, caught |-> r.caught, exc |-> r.exc,
                       steps |-> r.steps]
         IN  DictLoop(dict_tables, k + 1,
                      [exc |-> r.exc, db |-> r.db, log |-> r.log,
                       events |-> Append(st.events, event)],
                      oks)

load_dict_tables(dict_tables, sink, lines, oks) ==
    DictLoop(dict_tables, 1,
             [exc |-> "none", db |-> sink, log |-> lines, events |-> <<>>], oks)

-----------------------------------------------------------------------------
(* DataTableLoader.load_table *)

\* the branch of load_table on is_spatial
LoadFunc(data_file_setting) ==
    IF data_file_setting.is_spatial THEN "_load_spatial" ELSE "_load_non_spatial"

\* _prepare_data is called before, and outside, the decorated load
\* function: what it raises leaves load_table
load_table(files, data_file_setting, sink, lines, sinkOk) ==
    LET p == _prepare_data(files, data_file_setting)
        r == load_log_decorator(LoadFunc(data_file_setting),
                                [data |-> p.data, data_file_setting |-> data_file_setting],
                                sink, lines, sinkOk)
        t == data_file_setting.table_name
    IN  IF p.exc # "none"
        THEN [exc |-> p.exc, db |-> sink, log |-> lines,
              event |-> [op |-> "load_table", setting |-> data_file_setting,
                         read |-> p.exc, data |-> p.data,
                         before |-> sink[t], after |-> sink[t],
                         logFrom |-> Len(lines), logTo |-> Len(lines),
                         sink |-> "unused", caught |-> "none", exc |-> p.exc,
                         steps |-> <<"read">>]]
        ELSE [exc |-> r.exc, db |-> r.db, log |-> r.log,
              event |-> [op |-> "load_table", setting |-> data_file_setting,
                         read |-> "none", data |-> p.data,
                         before |-> sink[t], after |-> r.db[t],
                         logFrom |-> Len(lines), logTo |-> Len(r.log),
                         sink |-> r.sink, caught |-> r.caught, exc |-> r.exc,
                         steps |-> <<"read">> \o r.steps]]

-----------------------------------------------------------------------------
(* Configuration *)

\* YAML values: a scalar carries its type, a mapping is a record that
\* holds the keys the document gives
YamlStr(s) == <<"str", s>>
YamlInt(n) == <<"int", n>>
YamlList(items) == <<"list", items>>
YamlMap(m) == <<"map", m>>

IsStr(v) == v[1] = "str"
IsList(v) == v[1] = "list"
IsMap(v) == v[1] = "map"

\* a model of str fields only: every field required, every value a string
ValidStrModel(v, fields) ==
    /\ IsMap(v)
    /\ fields \subseteq DOMAIN v[2]
    /\ \A f \in fields : IsStr(v[2][f])

StrModel(v) == [f \in DOMAIN v[2] |-> v[2][f][2]]

DBConnectionFields == {"host", "database", "user", "password"}
CSVSettingsFields == {"encoding", "delimiter", "quote_char"}
DictTableSettingsFields == {"name", "data"}
DataFileSettingsFields == {"file_name", "table_name", "is_spatial", "columns"}
ConfigurationFields == {"nasr_db", "csv_settings", "data_dir", "dict_tables", "data_tables"}

ValidList(v, fields) ==
    /\ IsList(v)
    /\ \A k \in DOMAIN v[2] : fields \subseteq DOMAIN v[2][k]

\* a plausible slip: the connection settings are not validated
ValidExceptConnection(content) ==
    /\ ConfigurationFields \subseteq DOMAIN content
    /\ IsMap(content.nasr_db)
    /\ ValidStrModel(content.csv_settings, CSVSettingsFields)
    /\ IsStr(content.data_dir)
    /\ ValidList(content.dict_tables, DictTableSettingsFields)
    /\ ValidList(content.data_tables, DataFileSettingsFields)

\* Configuration(**content): pydantic validates every field
ValidConfiguration(content) ==
    /\ ConfigurationFields \subseteq DOMAIN content
    /\ ValidStrModel(content.nasr_db, DBConnectionFields)
    /\ ValidStrModel(content.csv_settings, CSVSettingsFields)
    /\ IsStr(content.data_dir)
    /\ ValidList(content.dict_tables, DictTableSettingsFields)
    /\ ValidList(content.data_tables, DataFileSettingsFields)

NoConfig == [loaded |-> FALSE]

Configuration(content) ==
    [loaded |-> TRUE,
     nasr_db |-> StrModel(content.nasr_db),
     csv_settings |-> StrModel(content.csv_settings),
     data_dir |-> content.data_dir[2],
     dict_tables |-> content.dict_tables[2],
     data_tables |-> content.data_tables[2]]

\* load_config: safe_load raises on a text that is no YAML, Configuration
\* raises ValidationError on a missing field or a value of the wrong type
load_config(file) ==
    IF ~file.parsable THEN [exc |-> "YAMLError", config |-> NoConfig]
    ELSE IF ~ValidConfiguration(file.content)
    THEN [exc |-> "ValidationError", config |-> NoConfig]
    ELSE [exc |-> "none", config |-> Configuration(file.content)]

-----------------------------------------------------------------------------
(* Inputs *)

\* all sequences over S of length at most n
SeqsUpTo(S, n) == UNION {[1..k -> S] : k \in 0..n}

\* column names as the NASR files spell them
ID == <<"I","D">>
LAT_DECIMAL == <<"L","A","T","_","D","E","C","I","M","A","L">>
LONG_DECIMAL == <<"L","O","N","G","_","D","E","C","I","M","A","L">>
ELEV == <<"E","L","E","V">>

FullHeader == <<ID, LAT_DECIMAL, LONG_DECIMAL>>

\* data rows under FullHeader: cells with and without surrounding
\* whitespace, coordinates that are numbers and one that is blank
DataRows ==
    { << <<"K","1">>, <<"1">>, <<" ","2","\t">> >>,
      << <<" ","k"," ","2"," ">>, <<"-","3"," ">>, <<"1","0">> >>,
      << <<"x","\t">>, <<" ">>, <<"4">> >> }

\* a CSV file with the first w columns of FullHeader
CSVOfWidth(w, rows) ==
    CSVFile(SubSeq(FullHeader, 1, w), [r \in DOMAIN rows |-> SubSeq(rows[r], 1, w)])

\* a plausible slip: two calls of the list exchanged
FileOrderSwapped ==
    <<"AWOS.csv", "FIX_BASE.csv", "FIX_CHRT.csv", "FIX_NAV.csv", "LID.csv",
      "NAV_CKPT.csv", "NAV_BASE.csv", "NAV_RMK.csv", "RDR.csv", "WXL_BASE.csv",
      "WXL_SVC.csv">>

\* the fixed, explicit list of main: file names in the order of the calls
FileOrder ==
    <<"AWOS.csv", "FIX_BASE.csv", "FIX_CHRT.csv", "FIX_NAV.csv", "LID.csv",
      "NAV_BASE.csv", "NAV_CKPT.csv", "NAV_RMK.csv", "RDR.csv", "WXL_BASE.csv",
      "WXL_SVC.csv">>

FileNames == SeqToSet(FileOrder)

\* table names a configuration gives to the files, position by position
FileTables ==
    <<"awos", "fix_base", "fix_chrt", "fix_nav", "lid",
      "nav_base", "nav_ckpt", "nav_rmk", "rdr", "wxl_base",
      "wxl_svc">>

DictNames == {"", "state_codes"}

TableNames == SeqToSet(FileTables) \cup DictNames

code == <<"c","o","d","e">>
descr == <<"d","e","s","c","r">>

\* row-mappings of dictionary tables; the second has a key the first lacks
DictItems ==
    { << <<code, <<"A">>>> >>,
      << <<code, <<"B">>>>, <<descr, <<"b","e","t","a">>>> >> }

DictSettings ==
    {[name |-> n, data |-> PyList(items)] :
        n \in DictNames, items \in SeqsUpTo(DictItems, MaxRows)}

\* settings passed to DataTableLoader.load_table through its API: the
\* columns in an order of their own, without the longitude, or with a
\* column no file has; and a file the directory does not hold
ColumnLists == { <<LONG_DECIMAL, ID, LAT_DECIMAL>>, <<ID, LAT_DECIMAL>>, <<ID, ELEV>> }

LoaderSettings ==
    {[file_name |-> "FIX_BASE.csv", table_name |-> "fix_base",
      is_spatial |-> sp, columns |-> cols] : sp \in BOOLEAN, cols \in ColumnLists}
    \cup {[file_name |-> "LID.csv", table_name |-> "lid",
           is_spatial |-> FALSE, columns |-> <<ID>>]}

EmptyDir == [f \in FileNames |-> NoFile]

LoaderDirs ==
    {[EmptyDir EXCEPT !["FIX_BASE.csv"] = CSVOfWidth(w, rows)] :
        w \in {Len(FullHeader) - 1, Len(FullHeader)}, rows \in SeqsUpTo(DataRows, MaxRows)}

\* the data directory of a run of main: every file with one row, except
\* at most one that is absent
OneRow == << <<"K","1">>, <<"1">>, <<" ","2","\t">> >>

MainDirs ==
    {[f \in FileNames |-> IF f \in absent THEN NoFile ELSE CSVOfWidth(Len(FullHeader), <<OneRow>>)] :
        absent \in {{}, {"FIX_NAV.csv"}, {"WXL_SVC.csv"}}}

\* data_tables of a configuration: one entry per file of main's list,
\* except those of `omitted`; the files of `spatial` are spatial
DataTablesOf(spatial, omitted) ==
    LET keep == {k \in DOMAIN FileOrder : FileOrder[k] \notin omitted}
    IN  Keep([k \in DOMAIN FileOrder |->
                 [file_name |-> FileOrder[k], table_name |-> FileTables[k],
                  is_spatial |-> FileOrder[k] \in spatial,
                  columns |-> FullHeader]],
             keep)

DefaultContent ==
    [nasr_db |-> YamlMap([host |-> YamlStr("localhost"), database |-> YamlStr("nasr"),
                          user |-> YamlStr("nasr"), password |-> YamlStr("secret")]),
     csv_settings |-> YamlMap([encoding |-> YamlStr("utf-8"), delimiter |-> YamlStr(","),
                               quote_char |-> YamlStr("\"")]),
     data_dir |-> YamlStr("data"),
     dict_tables |-> YamlList(<<>>),
     data_tables |-> YamlList(DataTablesOf({"FIX_BASE.csv"}, {}))]

\* c without the key k
Without(c, k) == [f \in DOMAIN c \ {k} |-> c[f]]

WellFormedConfigFiles ==
    {[parsable |-> TRUE,
      content |-> [DefaultContent EXCEPT
                     !.dict_tables = YamlList(d),
                     !.data_tables = YamlList(DataTablesOf(spatial, omitted))]] :
        d \in SeqsUpTo({t \in DictSettings : Len(t.data.items) = 1}, MaxDictTables),
        spatial \in {{"AWOS.csv", "FIX_BASE.csv", "NAV_BASE.csv", "WXL_BASE.csv"}},
        omitted \in {{}, {"AWOS.csv"}, {"NAV_RMK.csv"}}}

MalformedConfigFiles ==
    { [parsable |-> FALSE, content |-> DefaultContent],
      [parsable |-> TRUE,
       content |-> [DefaultContent EXCEPT
                      !.nasr_db = YamlMap(Without(DefaultContent.nasr_db[2], "password"))]],
      [parsable |-> TRUE,
       content |-> [DefaultContent EXCEPT
                      !.nasr_db = YamlMap([DefaultContent.nasr_db[2] EXCEPT
                                             !.password = YamlInt(12345)])]],
      [parsable |-> TRUE, content |-> Without(DefaultContent, "data_dir")],
      [parsable |-> TRUE,
       content |-> [DefaultContent EXCEPT !.data_tables = YamlStr("AWOS.csv")]] }

NoConfigFile == [parsable |-> FALSE, content |-> <<>>]

-----------------------------------------------------------------------------
(* main *)

\* data_tables_lookup = {t.file_name: t for t in config.data_tables}: a
\* later entry with the same file name replaces an earlier one
HasEntry(data_tables, file_name) ==
    \E k \in DOMAIN data_tables : data_tables[k].file_name = file_name

Lookup(data_tables, file_name) ==
    LET ks == {k \in DOMAIN data_tables : data_tables[k].file_name = file_name}
    IN  data_tables[CHOOSE k \in ks : \A j \in ks : j <= k]

Refused(events) == Cardinality({k \in DOMAIN events : events[k].sink = "refused"})

InitMain ==
    /\ pc = "configure_logging"
    /\ configFile \in WellFormedConfigFiles \cup MalformedConfigFiles
    /\ csvFiles \in MainDirs
    /\ config = NoConfig
    /\ engine = FALSE
    /\ db = [t \in TableNames |-> <<>>]
    /\ log = <<>>
    /\ trace = <<>>
    /\ idx = 0
    /\ exc = "none"
    /\ sinkFailures = 0
    /\ args = <<>>

\* configure_logging()
ConfigureLogging ==
    /\ pc = "configure_logging"
    /\ pc' = "load_config"
    /\ trace' = Append(trace, [op |-> "configure_logging", exc |-> "none"])
    /\ UNCHANGED <<configFile, csvFiles, config, engine, db, log, idx, exc, sinkFailures, args>>

\* config = load_config(Path("config.yaml"))
LoadConfig ==
    /\ pc = "load_config"
    /\ LET r == load_config(configFile)
       IN  /\ trace' = Append(trace, [op |-> "load_config", exc |-> r.exc])
           /\ config' = r.config
           /\ exc' = r.exc
           /\ pc' = IF r.exc = "none" THEN "create_engine" ELSE "raised"
    /\ UNCHANGED <<configFile, csvFiles, engine, db, log, idx, sinkFailures, args>>

\* engine = create_engine(...): raises when the URL or the driver is unusable
CreateEngine ==
    /\ pc = "create_engine"
    /\ \E ok \in BOOLEAN :
          /\ engine' = ok
          /\ exc' = IF ok THEN "none" ELSE "ArgumentError"
          /\ pc' = IF ok THEN "load_dict_tables" ELSE "raised"
          /\ trace' = Append(trace, [op |-> "create_engine",
                                     exc |-> IF ok THEN "none" ELSE "ArgumentError"])
    /\ UNCHANGED <<configFile, csvFiles, config, db, log, idx, sinkFailures, args>>

\* load_dict_tables(dict_tables=config.dict_tables, engine=engine)
LoadDictTables ==
    /\ pc = "load_dict_tables"
    /\ \E oks \in [DOMAIN config.dict_tables -> BOOLEAN] :
          LET r == load_dict_tables(config.dict_tables, db, log, oks)
          IN  /\ sinkFailures + Refused(r.events) <= MaxSinkFailures
              /\ db' = r.db
              /\ log' = r.log
              /\ trace' = trace \o r.events
              /\ sinkFailures' = sinkFailures + Refused(r.events)
              /\ exc' = r.exc
              /\ pc' = IF r.exc = "none" THEN "load_table" ELSE "raised"
              /\ idx' = 1
              /\ args' = config.dict_tables
    /\ UNCHANGED <<configFile, csvFiles, config, engine>>

\* dtl.load_table(data_file_setting=data_tables_lookup[FileOrder[idx]])
LoadTable ==
    /\ pc = "load_table"
    /\ LET file_name == FileOrder[idx]
       IN  IF ~HasEntry(config.data_tables, file_name)
           THEN /\ exc' = "KeyError"
                /\ pc' = "raised"
                /\ trace' = Append(trace, [op |-> "lookup", file |-> file_name,
                                           exc |-> "KeyError", sink |-> "unused"])
                /\ UNCHANGED <<db, log, idx, sinkFailures>>
           ELSE \E sinkOk \in BOOLEAN :
                  LET r == load_table(csvFiles, Lookup(config.data_tables, file_name),
                                      db, log, sinkOk)
                  IN  /\ sinkFailures + Refused(<<r.event>>) <= MaxSinkFailures
                      /\ db' = r.db
                      /\ log' = r.log
                      /\ trace' = Append(trace, r.event)
                      /\ sinkFailures' = sinkFailures + Refused(<<r.event>>)
                      /\ exc' = r.exc
                      /\ idx' = IF r.exc = "none" THEN idx + 1 ELSE idx
                      /\ pc' = IF r.exc # "none" THEN "raised"
                               ELSE IF idx = Len(FileOrder) THEN "done"
                               ELSE "load_table"
    /\ UNCHANGED <<configFile, csvFiles, config, engine, args>>

Next == ConfigureLogging \/ LoadConfig \/ CreateEngine \/ LoadDictTables \/ LoadTable

Spec == InitMain /\ [][Next]_vars

-----------------------------------------------------------------------------
(* DataTableLoader.load_table, called by a caller of its own *)

\* a row an earlier run left in a table
EarlierRow == SinkRow(<<Lower(ID)>>, << <<"J","0">> >>, <<>>)

InitLoader ==
    /\ pc = "api"
    /\ configFile = NoConfigFile
    /\ csvFiles \in LoaderDirs
    /\ config = NoConfig
    /\ engine = TRUE
    /\ db \in {[t \in TableNames |-> <<>>],
               [t \in TableNames |-> IF t = "fix_base" THEN <<EarlierRow>> ELSE <<>>]}
    /\ log = <<>>
    /\ trace = <<>>
    /\ idx = 0
    /\ exc = "none"
    /\ sinkFailures = 0
    /\ args = <<>>

ApiLoadTable ==
    /\ pc = "api"
    /\ Len(trace) < MaxCalls
    /\ \E data_file_setting \in LoaderSettings, sinkOk \in BOOLEAN :
          LET r == load_table(csvFiles, data_file_setting, db, log, sinkOk)
          IN  /\ db' = r.db
              /\ log' = r.log
              /\ trace' = Append(trace, r.event)
              /\ exc' = r.exc
              /\ sinkFailures' = sinkFailures + Refused(<<r.event>>)
    /\ UNCHANGED <<pc, configFile, csvFiles, config, engine, idx, args>>

NextLoader == ApiLoadTable

SpecLoader == InitLoader /\ [][NextLoader]_vars

-----------------------------------------------------------------------------
(* load_dict_tables, called by a caller of its own *)

InitDict ==
    /\ pc = "api_dict"
    /\ configFile = NoConfigFile
    /\ csvFiles = EmptyDir
    /\ config = NoConfig
    /\ engine = TRUE
    /\ db = [t \in TableNames |-> <<>>]
    /\ log = <<>>
    /\ trace = <<>>
    /\ idx = 0
    /\ exc = "none"
    /\ sinkFailures = 0
    /\ args = <<>>

ApiLoadDictTables ==
    /\ pc = "api_dict"
    /\ \E dict_tables \in SeqsUpTo(DictSettings, MaxDictTables) :
       \E oks \in [DOMAIN dict_tables -> BOOLEAN] :
          LET r == load_dict_tables(dict_tables, db, log, oks)
          IN  /\ db' = r.db
              /\ log' = r.log
              /\ trace' = r.events
              /\ exc' = r.exc
              /\ sinkFailures' = Refused(r.events)
              /\ args' = dict_tables
    /\ pc' = "returned"
    /\ UNCHANGED <<configFile, csvFiles, config, engine, idx>>

NextDict == ApiLoadDictTables

SpecDict == InitDict /\ [][NextDict]_vars

-----------------------------------------------------------------------------
(* Properties: vocabulary *)

LoadTableEvents == {k \in DOMAIN trace : trace[k].op = "load_table"}

\* the latest call, when it is a load_table call; every call is the latest
\* one in the state it leads to
LatestLoadTable == LoadTableEvents \cap {Len(trace)}
DictEvents == {k \in DOMAIN trace : trace[k].op = "load_dict_table"}

\* the rows an attempt added to its table
NewRows(e) == SubSeq(e.after, Len(e.before) + 1, Len(e.after))

\* the log lines an attempt produced
Lines(e) == SubSeq(log, e.logFrom + 1, e.logTo)

IsPrefix(s, t) == Len(s) <= Len(t) /\ SubSeq(t, 1, Len(s)) = s

\* v is c without its leading and trailing whitespace, said without Strip:
\* v is a slice of c, only whitespace is cut off, and v neither starts
\* nor ends with whitespace
IsStrippedOf(v, c) ==
    /\ \E i \in 1..(Len(c) + 1), j \in 0..Len(c) :
          /\ v = SubSeq(c, i, j)
          /\ \A k \in 1..(i - 1) : c[k] \in Whitespace
          /\ \A k \in (j + 1)..Len(c) : c[k] \in Whitespace
    /\ v # <<>> => v[1] \notin Whitespace /\ v[Len(v)] \notin Whitespace

AllLowerCase(name) == \A k \in DOMAIN name : name[k] \notin SeqToSet(UpperLetters)

\* the CSV file an attempt read
FileOf(e) == csvFiles[e.setting.file_name]

\* the attempt failed: the read raised, or the decorated load raised
Failed(e) == e.read # "none" \/ e.caught # "none"

\* the header of the file lacks a configured column
MissingColumn(e) ==
    /\ FileOf(e).exists
    /\ ~(SeqToSet(e.setting.columns) \subseteq SeqToSet(FileOf(e).header))

\* row `row` holds, for the configured columns `wanted`, lower-cased names
\* and the stripped cells of line r of the file
HoldsStrippedCells(row, e, r, wanted) ==
    /\ Len(row.names) = Cardinality(wanted)
    /\ Len(row.vals) = Len(row.names)
    /\ {row.names[j] : j \in DOMAIN row.names} = {Lower(c) : c \in wanted}
    /\ \A j \in DOMAIN row.names :
          /\ AllLowerCase(row.names[j])
          /\ \E h \in DOMAIN FileOf(e).header :
                /\ FileOf(e).header[h] \in wanted
                /\ row.names[j] = Lower(FileOf(e).header[h])
                /\ IsStrippedOf(row.vals[j], FileOf(e).rows[r][h])

-----------------------------------------------------------------------------
(* C1 *)

\* C1 (as claimed): every error raised while load_table handles a setting,
\* a read error included, is caught: the call logs the failure and returns
\* without raising, and on a missing configured column no row is inserted.
C1_EveryErrorCaught ==
    \A k \in LoadTableEvents :
        LET e == trace[k]
        IN  /\ e.exc = "none"
            /\ Failed(e) => \E n \in DOMAIN Lines(e) : Lines(e)[n].kind = "exception"
            /\ MissingColumn(e) => e.after = e.before

-----------------------------------------------------------------------------
(* C6 *)

\* C6: after a successful load_table of a non-spatial setting whose CSV has
\* R data rows, the table has gained exactly R rows after the rows it had,
\* each with exactly the configured columns under all-lowercase names and
\* with the file's cells without leading and trailing whitespace.  The
\* cells are text: DataRows holds no cell read_csv takes for a missing value.
C6_NonSpatialRows ==
    \A k \in LatestLoadTable :
        LET e == trace[k]
        IN  (~e.setting.is_spatial /\ e.sink = "ok") =>
                /\ e.exc = "none"
                /\ IsPrefix(e.before, e.after)
                /\ Len(NewRows(e)) = Len(FileOf(e).rows)
                /\ \A r \in DOMAIN NewRows(e) :
                      /\ NewRows(e)[r].geom = <<>>
                      /\ HoldsStrippedCells(NewRows(e)[r], e, r, SeqToSet(e.setting.columns))

\* a non-spatial load has succeeded on a file with rows, and stripping
\* changed one of the cells it inserted
C6_Witness ==
    \E k \in LoadTableEvents :
        LET e == trace[k]
        IN  /\ ~e.setting.is_spatial /\ e.sink = "ok"
            /\ Len(NewRows(e)) = MaxRows
            /\ \E r \in DOMAIN NewRows(e), h \in DOMAIN FileOf(e).header :
                  /\ FileOf(e).header[h] \in SeqToSet(e.setting.columns)
                  /\ FileOf(e).rows[r][h] \notin SeqToSet(NewRows(e)[r].vals)

-----------------------------------------------------------------------------
(* C7 *)

\* the cell of line r of the file under the header column `name`
CellOf(e, r, name) ==
    FileOf(e).rows[r][CHOOSE h \in DOMAIN FileOf(e).header : FileOf(e).header[h] = name]

\* C7: after a successful load_table of a spatial setting every inserted
\* row carries exactly one point (EPSG:4326) whose x is that row's
\* long_decimal and whose y is that row's lat_decimal, holds neither raw
\* coordinate column, and keeps every other configured column.
C7_SpatialRows ==
    \A k \in LatestLoadTable :
        LET e == trace[k]
        IN  (e.setting.is_spatial /\ e.sink = "ok") =>
                /\ e.exc = "none"
                /\ Len(NewRows(e)) = Len(FileOf(e).rows)
                /\ \A r \in DOMAIN NewRows(e) :
                      LET row == NewRows(e)[r]
                      IN  /\ Len(row.geom) = 1
                          /\ row.geom[1].crs = "EPSG:4326"
                          /\ row.geom[1].x = ToFloat(Strip(CellOf(e, r, LONG_DECIMAL)))
                          /\ row.geom[1].y = ToFloat(Strip(CellOf(e, r, LAT_DECIMAL)))
                          /\ long_decimal \notin SeqToSet(row.names)
                          /\ lat_decimal \notin SeqToSet(row.names)
                          /\ HoldsStrippedCells(row, e, r,
                                 SeqToSet(e.setting.columns) \ {LONG_DECIMAL, LAT_DECIMAL})

\* a spatial load has succeeded on a file with rows, one of them with a
\* longitude that differs from its latitude, and kept a column
C7_Witness ==
    \E k \in LoadTableEvents :
        LET e == trace[k]
        IN  /\ e.setting.is_spatial /\ e.sink = "ok"
            /\ \E r \in DOMAIN NewRows(e) :
                  /\ NewRows(e)[r].geom[1].x # NewRows(e)[r].geom[1].y
                  /\ NewRows(e)[r].names # <<>>

-----------------------------------------------------------------------------
(* C8 *)

\* C8: loading only appends: no load removes or changes a row its table
\* held, and two successive successful load_table calls with the same
\* setting, on a file of R rows, leave the table with 2R rows more, the
\* rows of the second call equal to the rows of the first.
C8_AppendOnly ==
    /\ \A k \in LatestLoadTable : IsPrefix(trace[k].before, trace[k].after)
    /\ \A k \in LoadTableEvents :
          (/\ k + 1 \in LatestLoadTable
           /\ trace[k + 1].setting = trace[k].setting
           /\ trace[k].sink = "ok" /\ trace[k + 1].sink = "ok") =>
              LET R == Len(FileOf(trace[k]).rows)
              IN  /\ Len(trace[k + 1].after) = Len(trace[k].before) + 2 * R
                  /\ IsPrefix(trace[k].before, trace[k + 1].after)
                  /\ NewRows(trace[k + 1]) = NewRows(trace[k])
                  /\ trace[k + 1].before = trace[k].after

\* the same setting has been loaded twice in succession, both inserts
\* succeeding, on a file with rows and into a table that held rows before
C8_Witness ==
    \E k \in LoadTableEvents :
        /\ k + 1 \in LoadTableEvents
        /\ trace[k + 1].setting = trace[k].setting
        /\ trace[k].sink = "ok" /\ trace[k + 1].sink = "ok"
        /\ trace[k].before # <<>>
        /\ Len(FileOf(trace[k]).rows) = MaxRows

-----------------------------------------------------------------------------
(* C9 *)

\* C9 (as claimed): for every table-load attempt the log receives the
\* start line naming the table before any read or insert work of the
\* attempt, followed by exactly one of a success line with the row count
\* or the error; a failed attempt produces no row-count line.
C9_StartLineFirst ==
    \A k \in LoadTableEvents \cup DictEvents :
        LET e == trace[k]
            table == IF e.op = "load_table" THEN e.setting.table_name ELSE e.table
        IN  /\ e.steps # <<>>
            /\ e.steps[1] = "log_inserting"
            /\ Len(Lines(e)) = 2
            /\ Lines(e)[1] = InsertingLine(table)
            /\ Lines(e)[Len(Lines(e))].kind \in {"rows_inserted", "exception"}
            /\ Failed(e) => Lines(e)[Len(Lines(e))].kind = "exception"

-----------------------------------------------------------------------------
(* C2 *)

\* C2 (as claimed): for every list of dictionary tables and every subset of
\* them whose insert fails, load_dict_tables does not raise and attempts an
\* insert for every table of the list exactly once, in list order.
C2_EveryTableAttempted ==
    pc = "returned" =>
        /\ exc = "none"
        /\ Len(trace) = Len(args)
        /\ \A k \in DOMAIN trace :
              /\ trace[k].op = "load_dict_table"
              /\ trace[k].table = args[k].name
              /\ trace[k].data = args[k].data
              /\ trace[k].sink \in {"ok", "refused"}

-----------------------------------------------------------------------------
(* C5 *)

\* C5: a load of a dictionary table with N row-mappings (N >= 0) whose
\* insert succeeds appends exactly N rows to the table the setting names,
\* row r holding the values of the r-th mapping, raises nothing, and the
\* success line of the log reports N for that table.
C5_DictRows ==
    \A k \in DictEvents :
        LET e == trace[k]
            items == e.data.items
        IN  e.sink = "ok" =>
                /\ e.exc = "none"
                /\ IsPrefix(e.before, e.after)
                /\ Len(NewRows(e)) = Len(items)
                /\ \A r \in DOMAIN items :
                      \A n \in DOMAIN items[r] :
                          \E c \in DOMAIN NewRows(e)[r].names :
                              /\ NewRows(e)[r].names[c] = items[r][n][1]
                              /\ NewRows(e)[r].vals[c] = items[r][n][2]
                /\ Lines(e)[Len(Lines(e))] = RowsInsertedLine(e.table, Len(items))

\* one dictionary table with no row-mapping and one with MaxRows different
\* row-mappings have been loaded, both inserts succeeding
C5_Witness ==
    /\ \E k \in DictEvents : trace[k].sink = "ok" /\ trace[k].data.items = <<>>
    /\ \E k \in DictEvents :
          /\ trace[k].sink = "ok"
          /\ Len(trace[k].data.items) = MaxRows
          /\ trace[k].data.items[1] # trace[k].data.items[MaxRows]

-----------------------------------------------------------------------------
(* C3 *)

\* the order in which main loads the data files, as the claim spells it
ClaimedOrder ==
    <<"AWOS.csv", "FIX_BASE.csv", "FIX_CHRT.csv", "FIX_NAV.csv", "LID.csv",
      "NAV_BASE.csv", "NAV_CKPT.csv", "NAV_RMK.csv", "RDR.csv", "WXL_BASE.csv",
      "WXL_SVC.csv">>

\* phase of a call in a run of main
Phase(op) ==
    CASE op = "configure_logging" -> 0
      [] op = "load_config" -> 1
      [] op = "create_engine" -> 2
      [] op = "load_dict_table" -> 3
      [] OTHER -> 4

\* the data-table loads made so far, in order
DataLoads == Keep(trace, LoadTableEvents)

\* C3: in every run of main the config is loaded, then the sink is built,
\* then come all dictionary-table inserts, then the data-table loads in
\* the order AWOS, FIX_BASE, FIX_CHRT, FIX_NAV, LID, NAV_BASE, NAV_CKPT,
\* NAV_RMK, RDR, WXL_BASE, WXL_SVC; no data-table load precedes the last
\* dictionary-table attempt, and a load has ended before the next begins.
C3_MainOrder ==
    /\ \A j, k \in DOMAIN trace : j < k => Phase(trace[j].op) <= Phase(trace[k].op)
    /\ \A j, k \in DOMAIN trace :
          (j < k /\ Phase(trace[j].op) = Phase(trace[k].op)) => Phase(trace[k].op) >= 3
    /\ \A k \in DOMAIN trace :
          Phase(trace[k].op) >= 3 =>
              /\ \E j \in 1..(k - 1) : trace[j].op = "load_config" /\ trace[j].exc = "none"
              /\ \E j \in 1..(k - 1) : trace[j].op = "create_engine" /\ trace[j].exc = "none"
    /\ \A k \in DOMAIN trace :
          Phase(trace[k].op) = 4 =>
              /\ Cardinality(DictEvents) = Len(config.dict_tables)
              /\ \A j \in DictEvents : trace[j].table = config.dict_tables[trace[j].position].name
    /\ Len(DataLoads) <= Len(ClaimedOrder)
    /\ \A n \in DOMAIN DataLoads : DataLoads[n].setting.file_name = ClaimedOrder[n]
    /\ \A k \in LoadTableEvents \cup DictEvents :
          /\ k > 1 /\ k - 1 \in LoadTableEvents \cup DictEvents
                => trace[k].logFrom = trace[k - 1].logTo
          /\ k = Len(trace) => trace[k].logTo = Len(log)
    /\ pc = "done" => Len(DataLoads) = Len(ClaimedOrder)

\* a run of main has reached its end after loading dictionary tables and
\* every data file
C3_Witness ==
    /\ pc = "done"
    /\ Cardinality(DictEvents) = MaxDictTables
    /\ Len(DataLoads) = Len(ClaimedOrder)

-----------------------------------------------------------------------------
(* C4 *)

\* C4: when the config file is malformed (no YAML, a required field such
\* as nasr_db.password missing, a value of the wrong type) load_config
\* raises and the run ends there: no engine is created and no insert into
\* a dictionary table or a data table is attempted.
C4_MalformedConfigAborts ==
    configFile \in MalformedConfigFiles =>
        /\ engine = FALSE
        /\ config = NoConfig
        /\ \A k \in DOMAIN trace : Phase(trace[k].op) <= 1
        /\ \A t \in TableNames : db[t] = <<>>
        /\ log = <<>>
        /\ pc \in {"configure_logging", "load_config", "raised"}
        /\ pc = "raised" => exc \in {"YAMLError", "ValidationError"}

\* load_config has raised on a config file whose nasr_db lacks password
C4_Witness ==
    /\ pc = "raised"
    /\ configFile.parsable
    /\ "nasr_db" \in DOMAIN configFile.content
    /\ "password" \notin DOMAIN configFile.content.nasr_db[2]

-----------------------------------------------------------------------------
(* C10 *)

\* every file of main's list is there and holds the configured columns
EveryCSVReadable ==
    \A k \in DOMAIN config.data_tables :
        /\ csvFiles[config.data_tables[k].file_name].exists
        /\ SeqToSet(config.data_tables[k].columns)
             \subseteq SeqToSet(csvFiles[config.data_tables[k].file_name].header)

\* C10 (as claimed): in a run of main where the config load and the sink
\* creation succeed and every CSV is readable, whatever inserts the sink
\* refuses, every data table of the fixed list is attempted exactly once
\* and the run reaches its end without raising.
C10_RunReachesEnd ==
    (/\ config # NoConfig
     /\ engine
     /\ EveryCSVReadable
     /\ pc \in {"done", "raised"}) =>
        /\ pc = "done"
        /\ exc = "none"
        /\ \A n \in DOMAIN ClaimedOrder :
              Cardinality({k \in LoadTableEvents :
                             trace[k].setting.file_name = ClaimedOrder[n]}) = 1

====
